---- MODULE Spec2Model ----
(***************************************************************************)
(* Model of cellsolver/main.py: the timing wrapper TimeExecution, the      *)
(* system initializer, the fixed-step driver solve_using_euler, the        *)
(* adapter solve_using_scipy (dop853 / vode) and the driver selection in   *)
(* main.                                                                   *)
(*                                                                         *)
(* Numbers.  Times are counted in ticks of 0.1 time units and are Python   *)
(* floats: every addition to a time is rounded to Prec significant bits,   *)
(* round-half-to-even (Prec stands for the 53 bits of a double).  State    *)
(* and rate values are fixed-point numbers with unit 1/Scale, which is     *)
(* exact for every product and sum a run of at most MaxIter iterations     *)
(* forms.                                                                  *)
(***************************************************************************)
EXTENDS Integers, Sequences, FiniteSets, TLC

\* ------------------------------------------------------------- bounds
\* most loop iterations of one driver run that are explored
MaxIter == 3
\* most entries of a state or rate vector
MaxDim == 2
\* largest --timeit repetition count
MaxTimeit == 1
\* significant bits of a float
Prec == 3

\* unit of the fixed-point state values: 1.0 is Scale
Scale == 10 ^ MaxIter

\* smallest time at which adding one tick is no longer exact
TBig == 2 ^ Prec

\* ------------------------------------------------------------- constants
KNOWN_SOLVERS == <<"euler", "dop853", "vode">>

\* TimeExecution.number as the class is defined
DefaultNumber == 10

Range(s) == { s[i] : i \in 1..Len(s) }

Min(a, b) == IF a < b THEN a ELSE b

Abs(a) == IF a < 0 THEN -a ELSE a

\* ------------------------------------------------------------- floats
RECURSIVE Ulp(_)
\* spacing of the floats around the magnitude a >= 0
Ulp(a) == IF a < 2 ^ Prec THEN 1 ELSE 2 * Ulp(a \div 2)

\* nearest float to the integer v, ties to the even significand
Round(v) ==
    LET a == Abs(v)
        u == Ulp(a)
        q == a \div u
        r == a % u
        m == IF 2 * r < u THEN q * u
             ELSE IF 2 * r > u THEN (q + 1) * u
             ELSE IF q % 2 = 0 THEN q * u ELSE (q + 1) * u
    IN  IF v < 0 THEN -m ELSE m

\* a + b on floats (t += step_size, solver.t + step_size)
FloatAdd(a, b) == Round(a + b)

\* ------------------------------------------------------------- the model contract
\* a system is a record [nStates, nRates]: the lengths its factories return
Systems == [nStates : 1..MaxDim, nRates : 1..MaxDim]

createStateVector(system) == [i \in 1..system.nStates |-> 0]

createRateVector(system) == [i \in 1..system.nRates |-> 0]

createVariableVector(system) == <<0, 0>>

\* writes y_i(0) = i.0 into states and the decay constant 1 into variables[1]
initializeConstants(system, sts, vrs) ==
    [states |-> [i \in 1..Len(sts) |-> i * Scale],
     variables |-> [vrs EXCEPT ![1] = 1]]

\* variables[2] = -variables[1]
computeComputedConstants(system, vrs) == [vrs EXCEPT ![2] = -vrs[1]]

\* dy_i/dt = -y_i: writes the rate of every state that has a slot in rates
computeRates(voi, sts, rts, vrs) ==
    [i \in 1..Len(rts) |-> IF i <= Len(sts) THEN vrs[2] * sts[i] ELSE rts[i]]

\* ------------------------------------------------------------- state
VARIABLES
    args,         \* parsed arguments: solver, timeit, interval, step_size, module
    oracle,       \* how the third-party integrator fares on these arguments
    run_timeit,   \* TimeExecution.run_timeit
    number,       \* TimeExecution.number
    pc,           \* position of the program
    driver,       \* the driver main selected, "none" before and for an unknown name
    remaining,    \* timed executions of the wrapped driver still to start
    states,       \* the driver's state vector
    rates,        \* the driver's rate vector
    variables,    \* the driver's variable vector
    x,            \* the driver's recorded times
    results,      \* the driver's recorded series, one per state index
    t,            \* the Euler driver's time
    solver,       \* the scipy ode object: t, y, success, integrations done
    calls,        \* computeRates calls of the Euler driver in this execution
    inits,        \* number of initialize_system calls
    runs,         \* trajectory returned by each execution of the wrapped driver
    solution,     \* main's [x, y_n], <<>> until assigned
    valid_solution,
    printed,      \* what was printed
    plotted       \* plot_solution was called

vars == <<args, oracle, run_timeit, number, pc, driver, remaining, states, rates,
          variables, x, results, t, solver, calls, inits, runs, solution,
          valid_solution, printed, plotted>>

\* ------------------------------------------------------------- inputs
Solvers == Range(KNOWN_SOLVERS) \cup {"rk4"}

Steps == {-1, 0, 1, 2}

Starts == {0, 1, TBig}

Ends == {0, 2, TBig + 2}

\* the integrator fails in its failAt-th integration (0: never), having
\* advanced by one tick (partial) or not at all before giving up
Oracles == [failAt : 0..MaxIter, partial : BOOLEAN]

NoOracle == [failAt |-> 0, partial |-> FALSE]

NoSolver == [t |-> 0, y |-> <<>>, success |-> TRUE, done |-> 0]

\* ------------------------------------------------------------- initialize_system
\* a stale initializer: hands back the vectors of the previous run
initialize_system_reuse(system) ==
    IF states # <<>>
    THEN [states |-> states, rates |-> rates, variables |-> variables]
    ELSE LET ic == initializeConstants(system, createStateVector(system),
                                       createVariableVector(system))
         IN  [states |-> ic.states, rates |-> createRateVector(system),
              variables |-> computeComputedConstants(system, ic.variables)]

initialize_system(system) ==
    LET rts == createRateVector(system)
        sts == createStateVector(system)
        vrs == createVariableVector(system)
        ic == initializeConstants(system, sts, vrs)
    IN  [states |-> ic.states, rates |-> rts,
         variables |-> computeComputedConstants(system, ic.variables)]

\* ------------------------------------------------------------- main
\* a selector that falls back to the default solver for an unknown name
select_default(name) ==
    IF name \in Range(KNOWN_SOLVERS) THEN name ELSE KNOWN_SOLVERS[1]

\* the if / elif chain of main: the driver for a solver name
select_driver(name) ==
    IF name = "euler" THEN "euler"
    ELSE IF name = "dop853" THEN "dop853"
    ELSE IF name = "vode" THEN "vode"
    ELSE "none"

Init ==
    /\ args \in [solver : Solvers, timeit : 0..MaxTimeit, interval : Starts \X Ends,
                 step_size : Steps, module : Systems]
    /\ oracle \in Oracles
    /\ (args.solver \notin {"dop853", "vode"} => oracle = NoOracle)
    /\ run_timeit = FALSE
    /\ number = DefaultNumber
    /\ pc = "main"
    /\ driver = "none"
    /\ remaining = 0
    /\ states = <<>>
    /\ rates = <<>>
    /\ variables = <<>>
    /\ x = <<>>
    /\ results = <<>>
    /\ t = 0
    /\ solver = NoSolver
    /\ calls = <<>>
    /\ inits = 0
    /\ runs = <<>>
    /\ solution = <<>>
    /\ valid_solution = FALSE
    /\ printed = <<>>
    /\ plotted = FALSE

\* main, up to the call of the selected driver or the unknown-solver branch
MainSelect ==
    /\ pc = "main"
    /\ run_timeit' = (args.timeit > 0)
    /\ number' = IF args.timeit > 0 THEN args.timeit ELSE number
    /\ driver' = select_driver(args.solver)
    /\ IF driver' # "none"
       THEN /\ valid_solution' = TRUE
            /\ pc' = "call"
            /\ UNCHANGED <<solution, printed>>
       ELSE /\ solution' = <<<<>>, <<>>>>
            /\ valid_solution' = FALSE
            /\ printed' = printed \o <<"Unknown solver", "help">>
            /\ pc' = "selected"
    /\ UNCHANGED <<args, oracle, remaining, states, rates, variables, x, results, t,
                   solver, calls, inits, runs, plotted>>

\* main, after the selection: plot a valid solution
MainPlot ==
    /\ pc = "selected"
    /\ plotted' = valid_solution
    /\ pc' = "done"
    /\ UNCHANGED <<args, oracle, run_timeit, number, driver, remaining, states, rates,
                   variables, x, results, t, solver, calls, inits, runs, solution,
                   valid_solution, printed>>

\* ------------------------------------------------------------- TimeExecution
\* __call__ is entered: number timed executions when timing is on
TimeExecutionCall ==
    /\ pc = "call"
    /\ remaining' = IF run_timeit THEN number ELSE 0
    /\ pc' = "run"
    /\ UNCHANGED <<args, oracle, run_timeit, number, driver, states, rates, variables,
                   x, results, t, solver, calls, inits, runs, solution,
                   valid_solution, printed, plotted>>

\* an execution of the wrapped driver returned traj: the timing loop goes on,
\* or ends and prints the average, or the last execution's value is returned
\* to main
AfterRun(traj) ==
    /\ runs' = Append(runs, traj)
    /\ IF remaining > 0
       THEN /\ remaining' = remaining - 1
            /\ printed' = IF remaining = 1 THEN Append(printed, "average")
                          ELSE printed
            /\ pc' = "run"
            /\ UNCHANGED solution
       ELSE /\ solution' = traj
            /\ pc' = "selected"
            /\ UNCHANGED <<remaining, printed>>

\* ------------------------------------------------------------- solve_using_euler
\* a loop test that also runs the end point
euler_continue_inclusive(tm, end) == tm <= end

\* while t < end
euler_continue(tm, end) == tm < end

\* delta = list(map(lambda var: var * step_size, rates)); step_size is in ticks
euler_delta(rts, step_size) == [i \in 1..Len(rts) |-> (rts[i] * step_size) \div 10]

\* states = [sum(x) for x in zip(states, delta)]: zip stops at the shorter list
euler_sum(sts, delta) ==
    [i \in 1..Min(Len(sts), Len(delta)) |-> sts[i] + delta[i]]

\* for index, value in enumerate(vals): results[index].append(value)
record(res, vals) ==
    [index \in 1..Len(res) |->
        IF index <= Len(vals) THEN Append(res[index], vals[index]) ELSE res[index]]

\* the driver is entered: lines up to the loop
EulerStart ==
    /\ pc = "run"
    /\ driver = "euler"
    /\ LET sys == initialize_system(args.module)
       IN  /\ states' = sys.states
           /\ rates' = sys.rates
           /\ variables' = sys.variables
           /\ results' = [i \in 1..Len(sys.states) |-> <<>>]
    /\ x' = <<>>
    /\ t' = args.interval[1]
    /\ calls' = <<>>
    /\ inits' = inits + 1
    /\ pc' = "loop"
    /\ UNCHANGED <<args, oracle, run_timeit, number, driver, remaining, solver, runs,
                   solution, valid_solution, printed, plotted>>

\* one iteration of the loop
EulerStep ==
    /\ pc = "loop"
    /\ driver = "euler"
    /\ euler_continue(t, args.interval[2])
    /\ Len(x) < MaxIter
    /\ LET rts == computeRates(t, states, rates, variables)
           delta == euler_delta(rts, args.step_size)
           sts == euler_sum(states, delta)
       IN  /\ rates' = rts
           /\ states' = sts
           /\ results' = record(results, sts)
    /\ calls' = Append(calls, [time |-> t, nStates |-> Len(states)])
    /\ x' = Append(x, t)
    /\ t' = FloatAdd(t, args.step_size)
    /\ UNCHANGED <<args, oracle, run_timeit, number, pc, driver, remaining, variables,
                   solver, inits, runs, solution, valid_solution, printed, plotted>>

\* the loop test fails: return x, results
EulerReturn ==
    /\ pc = "loop"
    /\ driver = "euler"
    /\ ~ euler_continue(t, args.interval[2])
    /\ AfterRun(<<x, results>>)
    /\ UNCHANGED <<args, oracle, run_timeit, number, driver, states, rates, variables,
                   x, results, t, solver, calls, inits, valid_solution, plotted>>

\* ------------------------------------------------------------- solve_using_scipy
\* the derivative callback handed to the integrator
update(voi, sts, rts, vrs) == computeRates(voi, sts, rts, vrs)

\* where a failing integration from tm towards target stops
fail_time(tm, target, partial) ==
    IF partial /\ target > tm THEN Round(tm + (target - tm) \div 2) ELSE tm

\* solver.integrate(target): on success the solver stands at target with the
\* advanced state; a failing integration leaves success false and the solver at
\* the time it reached.  The integrator is deterministic: orc fixes which
\* integration fails.
integrate(s, target, orc, rts, vrs) ==
    LET n == s.done + 1
        f == update(s.t, s.y, rts, vrs)
    IN  IF orc.failAt = n
        THEN [t |-> fail_time(s.t, target, orc.partial), y |-> s.y,
              success |-> FALSE, done |-> n]
        ELSE [t |-> target,
              y |-> [i \in 1..Len(s.y) |->
                        IF i <= Len(f) THEN s.y[i] + (f[i] * (target - s.t)) \div 10
                        ELSE s.y[i]],
              success |-> TRUE, done |-> n]

\* while solver.successful() and solver.t < end
scipy_continue(s, end) == s.success /\ s.t < end

\* the driver is entered: lines up to the loop
ScipyStart ==
    /\ pc = "run"
    /\ driver \in {"dop853", "vode"}
    /\ LET sys == initialize_system(args.module)
       IN  /\ states' = sys.states
           /\ rates' = sys.rates
           /\ variables' = sys.variables
           /\ results' = [i \in 1..Len(sys.states) |-> <<>>]
           /\ solver' = [t |-> args.interval[1], y |-> sys.states,
                         success |-> TRUE, done |-> 0]
    /\ x' = <<>>
    /\ calls' = <<>>
    /\ inits' = inits + 1
    /\ pc' = "loop"
    /\ UNCHANGED <<args, oracle, run_timeit, number, driver, remaining, t, runs,
                   solution, valid_solution, printed, plotted>>

\* one iteration of the loop: integrate, then record solver.t and solver.y
ScipyStep ==
    /\ pc = "loop"
    /\ driver \in {"dop853", "vode"}
    /\ scipy_continue(solver, args.interval[2])
    /\ Len(x) < MaxIter
    /\ solver' = integrate(solver, FloatAdd(solver.t, args.step_size), oracle,
                           rates, variables)
    /\ x' = Append(x, solver'.t)
    /\ results' = record(results, solver'.y)
    /\ UNCHANGED <<args, oracle, run_timeit, number, pc, driver, remaining, states,
                   rates, variables, t, calls, inits, runs, solution, valid_solution,
                   printed, plotted>>

\* the loop test fails: return x, results
ScipyReturn ==
    /\ pc = "loop"
    /\ driver \in {"dop853", "vode"}
    /\ ~ scipy_continue(solver, args.interval[2])
    /\ AfterRun(<<x, results>>)
    /\ UNCHANGED <<args, oracle, run_timeit, number, driver, states, rates, variables,
                   x, results, t, solver, calls, inits, valid_solution, plotted>>

\* ------------------------------------------------------------- specification
Next ==
    \/ MainSelect
    \/ TimeExecutionCall
    \/ EulerStart
    \/ EulerStep
    \/ EulerReturn
    \/ ScipyStart
    \/ ScipyStep
    \/ ScipyReturn
    \/ MainPlot

Spec == Init /\ [][Next]_vars

\* ------------------------------------------------------------- claims
StrictlyIncreasing(seq) == \A i \in 1..Len(seq) - 1 : seq[i] < seq[i + 1]

IsScipy == driver \in {"dop853", "vode"}

\* a valid input: a positive step size and an interval that does not run backwards
ValidInput == args.step_size > 0 /\ args.interval[1] <= args.interval[2]

\* the scalar system dy/dt = -y, y(0) = 1 with step 0.1 on [0, 0.2)
ScalarCase ==
    /\ driver = "euler"
    /\ args.module = [nStates |-> 1, nRates |-> 1]
    /\ args.step_size = 1
    /\ args.interval = <<0, 2>>

\* C1: for dy/dt = -y, y(0) = 1, step 0.1 and interval [0, 0.2) the Euler
\* driver returns exactly two samples whose recorded values are 1.0 and 0.9.
C1_ScalarSamples ==
    (ScalarCase /\ runs # <<>>) =>
        /\ Len(runs[1][1]) = 2
        /\ runs[1][2] = << <<Scale, (9 * Scale) \div 10>> >>

\* C2: in the scipy driver a sample is recorded only after an integration the
\* solver reports as successful: the samples number the successful
\* integrations, and a failed integration contributes none (stated on the
\* valid inputs).
C2_SamplesOnlyAfterSuccess ==
    (IsScipy /\ ValidInput) =>
        Len(x) = solver.done - (IF solver.success THEN 0 ELSE 1)

\* C3: with a step size that is zero or negative the Euler driver is rejected
\* before its loop: computeRates is never called and no sample is recorded.
C3_NonPositiveStepRejected ==
    (driver = "euler" /\ args.step_size <= 0) =>
        /\ calls = <<>>
        /\ x = <<>>
        /\ \A i \in 1..Len(runs) : runs[i][1] = <<>>

\* C4: for every driver and a valid input (step size > 0, start <= end) the
\* recorded times are strictly increasing, also when the solver fails (stated
\* on the intervals in which every time is an exact float).
C4_TimesStrictlyIncreasing ==
    (ValidInput /\ args.interval[2] < TBig) =>
        /\ StrictlyIncreasing(x)
        /\ \A i \in 1..Len(runs) : StrictlyIncreasing(runs[i][1])

\* C5: for every driver and model, after each loop iteration and at return,
\* every per-state series is as long as the list of recorded times (stated on
\* the valid inputs).
C5_SeriesAligned ==
    ValidInput =>
        /\ \A i \in 1..Len(results) : Len(results[i]) = Len(x)
        /\ \A k \in 1..Len(runs) :
              \A i \in 1..Len(runs[k][2]) : Len(runs[k][2][i]) = Len(runs[k][1])

\* C6: if the interval's start is not below its end, the Euler driver returns
\* zero time samples and empty per-state series, whatever the step size, and
\* never calls computeRates.
C6_EmptyInterval ==
    (driver = "euler" /\ args.interval[1] >= args.interval[2]) =>
        /\ x = <<>>
        /\ calls = <<>>
        /\ \A i \in 1..Len(results) : results[i] = <<>>
        /\ \A k \in 1..Len(runs) :
              runs[k] = << <<>>, [i \in 1..args.module.nStates |-> <<>>] >>

\* an Euler run over an empty interval has returned to main
C6_Witness ==
    /\ driver = "euler"
    /\ args.interval[1] >= args.interval[2]
    /\ args.step_size <= 0
    /\ pc = "done"
    /\ solution = << <<>>, [i \in 1..args.module.nStates |-> <<>>] >>

\* C7: for a solver name that is none of euler, dop853, vode, main calls no
\* driver (no initialization, no rate evaluation, no trajectory), does not
\* plot, prints the unknown-solver message and the usage help, and ends.
C7_UnknownSolver ==
    (args.solver \notin Range(KNOWN_SOLVERS)) =>
        /\ pc \in {"main", "selected", "done"}
        /\ inits = 0
        /\ calls = <<>>
        /\ runs = <<>>
        /\ solver = NoSolver
        /\ ~ plotted
        /\ (pc # "main" =>
              /\ printed = <<"Unknown solver", "help">>
              /\ ~ valid_solution
              /\ solution = << <<>>, <<>> >>)

\* main has ended for an unknown solver name
C7_Witness ==
    /\ args.solver = "rk4"
    /\ pc = "done"
    /\ printed = <<"Unknown solver", "help">>

\* C8: with timing on, every execution of the wrapped driver starts from
\* freshly initialized vectors and returns the trajectory of the first
\* execution, which is the run an untimed call makes; the trajectory handed
\* to main is that one, after number + 1 executions.
C8_TimedRunsIndependent ==
    run_timeit =>
        /\ \A k \in 1..Len(runs) : runs[k] = runs[1]
        /\ ((pc = "loop" /\ x = <<>> /\ driver = "euler") =>
               states = [i \in 1..args.module.nStates |-> i * Scale])
        /\ ((pc \in {"selected", "done"} /\ valid_solution) =>
               /\ Len(runs) = number + 1
               /\ solution = runs[1])

\* a timed call has returned a trajectory with samples
C8_Witness ==
    /\ run_timeit
    /\ pc = "done"
    /\ Len(runs) >= 2
    /\ solution[1] # <<>>
    /\ "average" \in Range(printed)

\* C9: during an Euler run the state vector keeps the length createStateVector
\* gave it, whatever the length of the rate vector: at every computeRates call
\* and in every recorded sample (stated on the valid inputs).
C9_StateNeverResized ==
    (driver = "euler" /\ pc = "loop" /\ ValidInput) =>
        /\ Len(states) = args.module.nStates
        /\ \A i \in 1..Len(calls) : calls[i].nStates = args.module.nStates

\* C10: for a step size s > 0 the Euler driver records exactly the times
\* t0, t0 + s, t0 + 2s, ... below tEnd, and calls computeRates once per
\* recorded sample, at the sample's time.
C10_EulerTimes ==
    (driver = "euler" /\ args.step_size > 0) =>
        /\ \A i \in 1..Len(x) :
              /\ x[i] = args.interval[1] + (i - 1) * args.step_size
              /\ x[i] < args.interval[2]
        /\ Len(calls) = Len(x)
        /\ \A i \in 1..Len(calls) : calls[i].time = x[i]

====
